---- MODULE Spec2Model ----
(***************************************************************************)
(* First-fit memory allocation simulator (src/ff_sim.c).                   *)
(*                                                                         *)
(* The SystemMemory aggregate is modelled as the C object it is: the three *)
(* arrays blocks[], processes[] and wait_queue[] and the five counters lie *)
(* one after the other in one run of int-sized words, `m`.  None of        *)
(* first_fit_allocate's array stores is bounds checked, so a store to      *)
(* blocks[MAX_BLOCKS] lands on processes[0], a store to                    *)
(* processes[MAX_PROCESSES] lands on wait_queue[0..1], and a process       *)
(* record stored further on lands on the counters.  Where the record's     *)
(* stores reach num_processes itself the outcome depends on whether the    *)
(* build reloads sys->num_processes for every statement (unoptimised) or   *)
(* keeps it in a register (optimised); `build` is the build of the run.    *)
(* A record stored past the end of the object lands in main's frame: the   *)
(* object is untouched by it, the operation runs to its end and the state  *)
(* is marked `stray`; what main does next with its clobbered locals is not *)
(* followed.  Any other store that would reach the counters or leave the   *)
(* object, and a load outside the object, end the run in a `crashed`       *)
(* state that is not followed further.                                     *)
(***************************************************************************)
EXTENDS Integers, Sequences, FiniteSets, TLC

\* ------------------------------------------------------------------------
\* Table capacities.  ff_sim.c sets all three to 50 (lines 7-9); the model
\* scales them down so that TLC can fill the tables.
MAX_BLOCKS == 2
MAX_PROCESSES == 3
MAX_WAIT_QUEUE == 2

\* Bounds of the exploration.
MaxSize == 3        \* block sizes entered at start-up: 1..MaxSize
MaxReq == 2         \* request sizes entered at the menu: 1..MaxReq
MaxPid == 4         \* allocate requests per run (main's process_id counter)

\* ------------------------------------------------------------------------
\* Layout of SystemMemory in int-sized words (struct, lines 12-42).
BLOCK_WORDS == 3    \* MemoryBlock: start, size, is_free
PROC_WORDS == 4     \* Process: id, memory_address, memory_size, is_active
WAIT_WORDS == 2     \* WaitingProcess: process_id, memory_size

PROC_OFF == BLOCK_WORDS * MAX_BLOCKS
WQ_OFF == PROC_OFF + PROC_WORDS * MAX_PROCESSES
ArrayWords == WQ_OFF + WAIT_WORDS * MAX_WAIT_QUEUE
NUM_BLOCKS_AT == ArrayWords
NUM_PROCESSES_AT == ArrayWords + 1
COUNT_AT == ArrayWords + 2
FRONT_AT == ArrayWords + 3
REAR_AT == ArrayWords + 4
StructWords == ArrayWords + 5

\* word address of a field of blocks[i], processes[n], wait_queue[k]
BlockStart(i) == BLOCK_WORDS * i
BlockSize(i) == BLOCK_WORDS * i + 1
BlockFree(i) == BLOCK_WORDS * i + 2
ProcId(n) == PROC_OFF + PROC_WORDS * n
ProcAddr(n) == PROC_OFF + PROC_WORDS * n + 1
ProcSize(n) == PROC_OFF + PROC_WORDS * n + 2
ProcActive(n) == PROC_OFF + PROC_WORDS * n + 3
WaitPid(k) == WQ_OFF + WAIT_WORDS * k
WaitSize(k) == WQ_OFF + WAIT_WORDS * k + 1

\* the word lies in one of the three arrays; the word lies in the object
InArr(a) == a >= 0 /\ a < ArrayWords
InObj(a) == a >= 0 /\ a < StructWords

\* the counters of an object s = [m, crashed, stray]
num_blocks(s) == s.m[NUM_BLOCKS_AT]
num_processes(s) == s.m[NUM_PROCESSES_AT]
wait_queue_count(s) == s.m[COUNT_AT]
wait_queue_front(s) == s.m[FRONT_AT]
wait_queue_rear(s) == s.m[REAR_AT]

\* the builds: sys->num_processes reloaded for every statement, or cached
Builds == {"reload", "cached"}

\* sys         the SystemMemory object (main's system_memory)
\* build       how the program was compiled
\* block_sizes main's block_sizes[], the sizes handed to initialize_memory
\* process_id  main's counter of the ids handed to first_fit_allocate
\* pre, last   the object before the latest menu operation, and that
\*             operation with its argument, return value and report
\* released    the object as the latest free_memory found it on reaching
\*             its drain loop (line 218); the object before the operation
\*             when the loop was not reached
VARIABLES sys, build, block_sizes, process_id, pre, last, released

vars == <<sys, build, block_sizes, process_id, pre, last, released>>

\* ------------------------------------------------------------------------
\* initialize_memory (lines 78-96): memset to zero, blocks laid out at
\* increasing start addresses from 0, all free.
RECURSIVE StartOf(_, _)
StartOf(sizes, i) ==
    IF i = 0 THEN 0 ELSE StartOf(sizes, i - 1) + sizes[i]

initialize_memory(sizes) ==
    LET n == Len(sizes)
    IN [m |-> [a \in 0..(StructWords - 1) |->
                  IF a < BLOCK_WORDS * n
                  THEN LET i == a \div BLOCK_WORDS
                           f == a % BLOCK_WORDS
                       IN  IF f = 0 THEN StartOf(sizes, i)
                           ELSE IF f = 1 THEN sizes[i + 1]
                           ELSE 1
                  ELSE IF a = NUM_BLOCKS_AT THEN n
                  ELSE IF a = REAR_AT THEN -1
                  ELSE 0],
        crashed |-> FALSE,
        stray |-> FALSE]

Crash(s) == [s EXCEPT !.crashed = TRUE]

\* one store through a field of processes[n]; it may land on any word of
\* the object, or past its end
Store(s, a, v) ==
    IF s.crashed \/ a < 0 THEN Crash(s)
    ELSE IF ~InObj(a) THEN [s EXCEPT !.stray = TRUE]
    ELSE [s EXCEPT !.m[a] = v]

\* ------------------------------------------------------------------------
\* get_total_free_memory (lines 99-108).  BlocksInObj: the scan of
\* blocks[0..num_blocks-1] stays in the object.
RECURSIVE SumFree(_, _)
SumFree(s, i) ==
    IF i >= num_blocks(s) THEN 0
    ELSE (IF s.m[BlockFree(i)] # 0 THEN s.m[BlockSize(i)] ELSE 0)
         + SumFree(s, i + 1)

BlocksInObj(s) == num_blocks(s) <= 0 \/ InObj(BlockFree(num_blocks(s) - 1))

get_total_free_memory(s) == SumFree(s, 0)

\* ------------------------------------------------------------------------
\* add_to_wait_queue (lines 111-126)
add_to_wait_queue(s, pid, size) ==
    IF wait_queue_count(s) >= MAX_WAIT_QUEUE
    THEN [s |-> s, ret |-> 0]
    ELSE LET rear == (wait_queue_rear(s) + 1) % MAX_WAIT_QUEUE
         IN  [s |-> [s EXCEPT !.m = [@ EXCEPT ![REAR_AT] = rear,
                                              ![WaitPid(rear)] = pid,
                                              ![WaitSize(rear)] = size,
                                              ![COUNT_AT] = @ + 1]],
              ret |-> 1]

\* ------------------------------------------------------------------------
\* first_fit_allocate, the search (lines 162-163): the index of the first
\* block, in index order, that is free and at least `size` large.
NoFit == -1
OutOfObj == -2

RECURSIVE FirstFit(_, _, _)
FirstFit(s, size, i) ==
    IF i >= num_blocks(s) THEN NoFit
    ELSE IF ~InObj(BlockFree(i)) THEN OutOfObj
    ELSE IF s.m[BlockFree(i)] # 0 /\ s.m[BlockSize(i)] >= size THEN i
    ELSE FirstFit(s, size, i + 1)

\* lines 165-183: mark blocks[i] allocated, splitting it when it is larger
\* than the request.  The shift loop stores to blocks[num_blocks] without a
\* bounds check.
SplitBlock(s, i, size) ==
    IF s.m[BlockSize(i)] = size
    THEN IF InArr(BlockFree(i)) THEN [s EXCEPT !.m[BlockFree(i)] = 0] ELSE Crash(s)
    ELSE IF ~InArr(BlockFree(num_blocks(s))) THEN Crash(s)
    ELSE LET shifted == [a \in 0..(StructWords - 1) |->
                            IF a >= BlockStart(i + 2)
                               /\ a <= BlockFree(num_blocks(s))
                            THEN s.m[a - BLOCK_WORDS]
                            ELSE s.m[a]]
         IN  [s EXCEPT !.m = [shifted EXCEPT
                                 ![BlockStart(i + 1)] = shifted[BlockStart(i)] + size,
                                 ![BlockSize(i + 1)] = shifted[BlockSize(i)] - size,
                                 ![BlockFree(i + 1)] = 1,
                                 ![BlockSize(i)] = size,
                                 ![NUM_BLOCKS_AT] = @ + 1,
                                 ![BlockFree(i)] = 0]]

\* lines 185-192: append the process record, without a bounds check, and
\* return the block's start.  When the record's words are the words of
\* blocks[i] itself the stored address depends on the build's load/store
\* order in a way that is not followed.
RecordReload(s, i, process_id_, size) ==
    LET s1 == Store(s, ProcId(num_processes(s)), process_id_)
        s2 == Store(s1, ProcAddr(num_processes(s1)), s1.m[BlockStart(i)])
        s3 == Store(s2, ProcSize(num_processes(s2)), size)
        s4 == Store(s3, ProcActive(num_processes(s3)), 1)
    IN  Store(s4, NUM_PROCESSES_AT, num_processes(s4) + 1)

RecordCached(s, i, process_id_, size) ==
    LET n == num_processes(s)
        s1 == Store(s, ProcId(n), process_id_)
        s2 == Store(s1, ProcAddr(n), s.m[BlockStart(i)])
        s3 == Store(s2, ProcSize(n), size)
        s4 == Store(s3, ProcActive(n), 1)
    IN  Store(s4, NUM_PROCESSES_AT, n + 1)

RecordProcess(s, i, process_id_, size) ==
    LET n == num_processes(s)
    IN  IF s.crashed THEN [s |-> s, ret |-> NoFit]
        ELSE IF BlockFree(i) >= ProcId(n) /\ BlockStart(i) <= ProcActive(n)
        THEN [s |-> Crash(s), ret |-> NoFit]
        ELSE [s |-> IF build = "reload"
                    THEN RecordReload(s, i, process_id_, size)
                    ELSE RecordCached(s, i, process_id_, size),
              ret |-> s.m[BlockStart(i)]]

\* first_fit_allocate (lines 160-201)
first_fit_allocate(s, process_id_, size) ==
    LET i == FirstFit(s, size, 0)
    IN  IF i = OutOfObj THEN [s |-> Crash(s), ret |-> NoFit]
        ELSE IF i # NoFit
        THEN RecordProcess(SplitBlock(s, i, size), i, process_id_, size)
        ELSE [s |-> add_to_wait_queue(s, process_id_, size).s, ret |-> -1]

\* ------------------------------------------------------------------------
\* try_allocate_waiting_process that moves on to the next entry when the
\* total free memory does not cover the head
try_allocate_waiting_process_SkipsHead(s) ==
    IF wait_queue_count(s) = 0 THEN [s |-> s, ret |-> 0]
    ELSE IF ~BlocksInObj(s) \/ ~InArr(WaitSize(wait_queue_front(s)))
    THEN [s |-> Crash(s), ret |-> 0]
    ELSE LET waiting_id == s.m[WaitPid(wait_queue_front(s))]
             waiting_size == s.m[WaitSize(wait_queue_front(s))]
         IN  IF get_total_free_memory(s) < waiting_size
             THEN [s |-> [s EXCEPT !.m =
                            [@ EXCEPT
                               ![FRONT_AT] = (@ + 1) % MAX_WAIT_QUEUE,
                               ![COUNT_AT] = @ - 1]],
                   ret |-> 1]
             ELSE LET r == first_fit_allocate(s, waiting_id, waiting_size)
                  IN  IF r.s.crashed THEN [s |-> r.s, ret |-> 0]
                      ELSE IF r.ret # -1
                      THEN [s |-> [r.s EXCEPT !.m =
                                     [@ EXCEPT
                                        ![FRONT_AT] = (@ + 1) % MAX_WAIT_QUEUE,
                                        ![COUNT_AT] = @ - 1]],
                            ret |-> 1]
                      ELSE [s |-> r.s, ret |-> 0]

\* try_allocate_waiting_process (lines 129-157)
try_allocate_waiting_process(s) ==
    IF wait_queue_count(s) = 0 THEN [s |-> s, ret |-> 0]
    ELSE IF ~BlocksInObj(s) \/ ~InArr(WaitSize(wait_queue_front(s)))
    THEN [s |-> Crash(s), ret |-> 0]
    ELSE LET waiting_id == s.m[WaitPid(wait_queue_front(s))]
             waiting_size == s.m[WaitSize(wait_queue_front(s))]
         IN  IF get_total_free_memory(s) < waiting_size
             THEN [s |-> s, ret |-> 0]
             ELSE LET r == first_fit_allocate(s, waiting_id, waiting_size)
                  IN  IF r.s.crashed THEN [s |-> r.s, ret |-> 0]
                      ELSE IF r.ret # -1
                      THEN [s |-> [r.s EXCEPT !.m =
                                     [@ EXCEPT
                                        ![FRONT_AT] = (@ + 1) % MAX_WAIT_QUEUE,
                                        ![COUNT_AT] = @ - 1]],
                            ret |-> 1]
                      ELSE [s |-> r.s, ret |-> 0]

\* line 218: while (try_allocate_waiting_process(sys));
RECURSIVE Drain(_)
Drain(s) ==
    LET r == try_allocate_waiting_process(s)
    IN  IF r.ret = 1 THEN Drain(r.s) ELSE r.s

\* ------------------------------------------------------------------------
\* free_memory (lines 204-225)
RECURSIVE BlockAt(_, _, _)
BlockAt(s, address, j) ==
    IF j >= num_blocks(s) THEN NoFit
    ELSE IF ~InObj(BlockFree(j)) THEN OutOfObj
    ELSE IF s.m[BlockStart(j)] = address THEN j
    ELSE BlockAt(s, address, j + 1)

\* free_memory without the is_active test of line 207
RECURSIVE FreeFrom_IgnoresActive(_, _, _)
FreeFrom_IgnoresActive(s, process_id_, i) ==
    IF i >= num_processes(s) THEN [s |-> s, found |-> FALSE, rel |-> s]
    ELSE IF ~InObj(ProcActive(i)) THEN [s |-> Crash(s), found |-> FALSE, rel |-> s]
    ELSE IF s.m[ProcId(i)] = process_id_
    THEN IF ~InArr(ProcActive(i)) THEN [s |-> Crash(s), found |-> FALSE, rel |-> s]
         ELSE
         LET s1 == [s EXCEPT !.m[ProcActive(i)] = 0]
             j == BlockAt(s1, s1.m[ProcAddr(i)], 0)
         IN  IF j = OutOfObj \/ (j # NoFit /\ ~InArr(BlockFree(j)))
             THEN [s |-> Crash(s1), found |-> FALSE, rel |-> s]
             ELSE IF j = NoFit THEN FreeFrom_IgnoresActive(s1, process_id_, i + 1)
             ELSE LET s2 == [s1 EXCEPT !.m[BlockFree(j)] = 1]
                  IN  [s |-> Drain(s2), found |-> TRUE, rel |-> s2]
    ELSE FreeFrom_IgnoresActive(s, process_id_, i + 1)

RECURSIVE FreeFrom(_, _, _)
FreeFrom(s, process_id_, i) ==
    IF i >= num_processes(s) THEN [s |-> s, found |-> FALSE, rel |-> s]
    ELSE IF ~InObj(ProcActive(i)) THEN [s |-> Crash(s), found |-> FALSE, rel |-> s]
    ELSE IF s.m[ProcId(i)] = process_id_ /\ s.m[ProcActive(i)] # 0
    THEN IF ~InArr(ProcActive(i)) THEN [s |-> Crash(s), found |-> FALSE, rel |-> s]
         ELSE
         LET s1 == [s EXCEPT !.m[ProcActive(i)] = 0]
             j == BlockAt(s1, s1.m[ProcAddr(i)], 0)
         IN  IF j = OutOfObj \/ (j # NoFit /\ ~InArr(BlockFree(j)))
             THEN [s |-> Crash(s1), found |-> FALSE, rel |-> s]
             ELSE IF j = NoFit THEN FreeFrom(s1, process_id_, i + 1)
             ELSE LET s2 == [s1 EXCEPT !.m[BlockFree(j)] = 1]
                  IN  [s |-> Drain(s2), found |-> TRUE, rel |-> s2]
    ELSE FreeFrom(s, process_id_, i + 1)

free_memory(s, process_id_) == FreeFrom(s, process_id_, 0)

\* ------------------------------------------------------------------------
\* main (lines 281-342)
BlockSizeInputs ==
    UNION { [1..n -> 1..MaxSize] : n \in 1..MAX_BLOCKS }

Init ==
    /\ build \in Builds
    /\ block_sizes \in BlockSizeInputs
    /\ sys = initialize_memory(block_sizes)
    /\ pre = sys
    /\ released = sys
    /\ last = [op |-> "init", pid |-> 0, size |-> 0, ret |-> 0, report |-> "none"]
    /\ process_id = 1

\* case 1 (lines 316-326)
Allocate ==
    /\ ~sys.crashed
    /\ ~sys.stray
    /\ process_id <= MaxPid
    /\ \E size \in 1..MaxReq :
          LET r == first_fit_allocate(sys, process_id, size)
          IN  /\ sys' = r.s
              /\ last' = [op |-> "allocate", pid |-> process_id, size |-> size,
                          ret |-> r.ret,
                          report |-> IF r.ret # -1 THEN "allocated" ELSE "queued"]
    /\ pre' = sys
    /\ released' = sys
    /\ process_id' = process_id + 1
    /\ UNCHANGED <<build, block_sizes>>

\* case 2 (lines 328-331): the id is read in 1..process_id-1
Free ==
    /\ ~sys.crashed
    /\ ~sys.stray
    /\ \E p \in 1..(process_id - 1) :
          LET r == free_memory(sys, p)
          IN  /\ sys' = r.s
              /\ last' = [op |-> "free", pid |-> p, size |-> 0, ret |-> 0,
                          report |-> IF r.found THEN "freed" ELSE "not found"]
              /\ released' = IF r.found THEN r.rel ELSE sys
    /\ pre' = sys
    /\ UNCHANGED <<build, block_sizes, process_id>>

\* the menu loop (lines 308-340); choice 3 ends the run with exit(0)
Next == Allocate \/ Free

Spec == Init /\ [][Next]_vars

\* ------------------------------------------------------------------------
\* Views of the tables used by the properties.  Word reads a word of the
\* object, 0 outside it.
Word(s, a) == IF InObj(a) THEN s.m[a] ELSE 0
Block(s, i) == <<Word(s, BlockStart(i)), Word(s, BlockSize(i)), Word(s, BlockFree(i))>>
Blocks(s) == [i \in 0..(num_blocks(s) - 1) |-> Block(s, i)]
Proc(s, n) == <<Word(s, ProcId(n)), Word(s, ProcAddr(n)), Word(s, ProcSize(n)), Word(s, ProcActive(n))>>
Processes(s) == [n \in 0..(num_processes(s) - 1) |-> Proc(s, n)]
Waiting(s) ==
    [k \in 0..(wait_queue_count(s) - 1) |->
        LET index == (wait_queue_front(s) + k) % MAX_WAIT_QUEUE
        IN  <<Word(s, WaitPid(index)), Word(s, WaitSize(index))>>]
WaitQueue(s) ==
    <<[k \in 0..(MAX_WAIT_QUEUE - 1) |-> <<Word(s, WaitPid(k)), Word(s, WaitSize(k))>>],
      wait_queue_count(s), wait_queue_front(s), wait_queue_rear(s)>>

RECURSIVE SumSizes(_, _)
SumSizes(s, i) ==
    IF i >= num_blocks(s) THEN 0 ELSE Word(s, BlockSize(i)) + SumSizes(s, i + 1)

Configured == StartOf(block_sizes, Len(block_sizes))

\* blocks that could take a request of `size`
Fits(s, size) ==
    {i \in 0..(num_blocks(s) - 1) : Word(s, BlockFree(i)) # 0 /\ Word(s, BlockSize(i)) >= size}

\* ------------------------------------------------------------------------
\* C1: after initialisation and after every completed allocate or free, the
\* sizes of blocks[0..num_blocks-1] add up to the sizes given at start-up.
C1_SumOfSizes ==
    ~sys.crashed => SumSizes(sys, 0) = Configured

\* C2: the block table is ordered by start, begins at 0, holds only blocks
\* of positive size and has no gap and no overlap between neighbours.
C2_Contiguous ==
    ~sys.crashed =>
        /\ Word(sys, BlockStart(0)) = 0
        /\ \A i \in 0..(num_blocks(sys) - 1) : Word(sys, BlockSize(i)) > 0
        /\ \A i \in 0..(num_blocks(sys) - 2) :
              /\ Word(sys, BlockStart(i)) < Word(sys, BlockStart(i + 1))
              /\ Word(sys, BlockStart(i)) + Word(sys, BlockSize(i)) = Word(sys, BlockStart(i + 1))

\* C3: when some free block is large enough, the allocation goes to the one
\* with the lowest start address and that address is returned; no address is
\* returned only when no single free block is large enough.
C3_LowestFit ==
    (last.op = "allocate" /\ ~sys.crashed) =>
        LET fits == Fits(pre, last.size)
        IN  IF fits = {} THEN last.ret = -1
            ELSE \E i \in fits :
                    /\ \A k \in fits : Word(pre, BlockStart(i)) <= Word(pre, BlockStart(k))
                    /\ last.ret = Word(pre, BlockStart(i))
                    /\ Word(sys, BlockStart(i)) = Word(pre, BlockStart(i))
                    /\ Word(sys, BlockFree(i)) = 0

\* C4: a request of size R placed in a free block (A, S) at index i with
\* S > R leaves blocks[i] = (A, R, allocated), blocks[i+1] = (A+R, S-R, free),
\* one block more, and every later block unchanged one index further on.
C4_Split ==
    LET i == FirstFit(pre, last.size, 0)
    IN  (last.op = "allocate" /\ i # NoFit /\ Word(pre, BlockSize(i)) > last.size) =>
            /\ ~sys.crashed
            /\ num_blocks(sys) = num_blocks(pre) + 1
            /\ Block(sys, i) = <<Word(pre, BlockStart(i)), last.size, 0>>
            /\ Block(sys, i + 1) = <<Word(pre, BlockStart(i)) + last.size,
                                     Word(pre, BlockSize(i)) - last.size, 1>>
            /\ \A j \in (i + 1)..(num_blocks(pre) - 1) : Block(sys, j + 1) = Block(pre, j)

\* C5: a request larger than every single free block, made while the wait
\* queue has room, is appended at the rear of the queue, gets no address,
\* and leaves the block table and the process table as they were.
C5_Queued ==
    (last.op = "allocate" /\ Fits(pre, last.size) = {}
       /\ wait_queue_count(pre) < MAX_WAIT_QUEUE) =>
        /\ ~sys.crashed
        /\ last.ret = -1
        /\ wait_queue_count(sys) = wait_queue_count(pre) + 1
        /\ \A k \in 0..(wait_queue_count(pre) - 1) : Waiting(sys)[k] = Waiting(pre)[k]
        /\ Waiting(sys)[wait_queue_count(pre)] = <<last.pid, last.size>>
        /\ Blocks(sys) = Blocks(pre)
        /\ Processes(sys) = Processes(pre)

\* C6: a request that fits no free block, made while the wait queue is full,
\* is rejected with an outcome that differs from the outcome of a queued
\* request, and leaves the wait queue, the block table and the process
\* table as they were.
C6_QueueFull ==
    (last.op = "allocate" /\ Fits(pre, last.size) = {}
       /\ wait_queue_count(pre) >= MAX_WAIT_QUEUE) =>
        /\ last.report # "queued"
        /\ WaitQueue(sys) = WaitQueue(pre)
        /\ Blocks(sys) = Blocks(pre)
        /\ Processes(sys) = Processes(pre)

\* C7: the block count never exceeds MAX_BLOCKS; an allocate that would
\* split while the table is full fails and changes nothing.
C7_BlockTableBound ==
    /\ num_blocks(sys) <= MAX_BLOCKS
    /\ LET i == FirstFit(pre, last.size, 0)
       IN  (last.op = "allocate" /\ num_blocks(pre) >= MAX_BLOCKS
              /\ i # NoFit /\ Word(pre, BlockSize(i)) > last.size) =>
               /\ last.report # "allocated"
               /\ sys = pre

\* C8: the number of process records never exceeds MAX_PROCESSES; an
\* allocate that finds a fitting block while the process table is full
\* fails and neither splits the block nor marks it allocated.
C8_ProcessTableBound ==
    /\ num_processes(sys) <= MAX_PROCESSES
    /\ (last.op = "allocate" /\ num_processes(pre) >= MAX_PROCESSES
          /\ Fits(pre, last.size) # {}) =>
           /\ last.report # "allocated"
           /\ Blocks(sys) = Blocks(pre)

HasActive(s, id) ==
    \E n \in 0..(num_processes(s) - 1) : Word(s, ProcId(n)) = id /\ Word(s, ProcActive(n)) # 0

\* C9: after free_memory(p) for a process p with an active allocation, a
\* second free_memory(p) reports "process not found" and changes nothing.
C9_SecondFree ==
    (last.op = "free" /\ HasActive(pre, last.pid) /\ ~sys.crashed) =>
        LET again == free_memory(sys, last.pid)
        IN  /\ ~again.found
            /\ again.s = sys

\* C10: free_memory(p) for an id without an active process record reports
\* "process not found" and changes nothing in the object.
C10_FreeNotFound ==
    (last.op = "free" /\ ~HasActive(pre, last.pid)) =>
        /\ last.report = "not found"
        /\ sys = pre

\* the id was freed before and the queue's head would pass the total-free
\* pre-check, so a drain would have been visible
C10_Witness ==
    /\ last.op = "free"
    /\ ~HasActive(pre, last.pid)
    /\ \E n \in 0..(num_processes(pre) - 1) : Word(pre, ProcId(n)) = last.pid
    /\ wait_queue_count(pre) > 0
    /\ wait_queue_count(pre) < MAX_WAIT_QUEUE
    /\ get_total_free_memory(pre) >= Word(pre, WaitSize(wait_queue_front(pre)))
    /\ last.report = "not found"

\* ------------------------------------------------------------------------
\* The requests the drain loop of line 218 takes out of the wait queue, in
\* the order it allocates them: <<process_id, memory_size>> of the head at
\* each iteration that allocates.
RECURSIVE Served(_)
Served(s) ==
    LET r == try_allocate_waiting_process(s)
    IN  IF r.ret = 1
        THEN <<<<Word(s, WaitPid(wait_queue_front(s))),
                 Word(s, WaitSize(wait_queue_front(s)))>>>> \o Served(r.s)
        ELSE <<>>

\* C11: requests leave the wait queue in the order they were put in it.
\* Step by step: the d requests a free allocates out of the queue are the d
\* oldest entries of the queue in their order, the entries behind them move
\* up unchanged, and an allocate takes nothing out of the queue and leaves
\* the entries in their order.
C11_Fifo ==
    ~sys.crashed =>
        LET served == IF last.op = "free" /\ last.report = "freed"
                      THEN Served(released) ELSE <<>>
            d == Len(served)
        IN  /\ d <= wait_queue_count(pre)
            /\ \A k \in 0..(d - 1) : served[k + 1] = Waiting(pre)[k]
            /\ \A k \in d..(wait_queue_count(pre) - 1) :
                  /\ k - d < wait_queue_count(sys)
                  /\ Waiting(sys)[k - d] = Waiting(pre)[k]

\* The object at the start of each iteration of the drain loop of line 218,
\* the iteration that ends the loop included.
RECURSIVE DrainStates(_)
DrainStates(s) ==
    LET r == try_allocate_waiting_process(s)
    IN  <<s>> \o (IF r.ret = 1 THEN DrainStates(r.s) ELSE <<>>)

HeadSize(s) == Word(s, WaitSize(wait_queue_front(s)))

RecordsOf(s, id) ==
    {n \in 0..(num_processes(s) - 1) : Word(s, ProcId(n)) = id}
ActiveOf(s, id) ==
    {n \in RecordsOf(s, id) : Word(s, ProcActive(n)) # 0}

\* C13: no two active process records carry the same id, and an id whose
\* allocation has been freed (it has a record and none of them is active,
\* or the operation just completed freed its only active record) has no
\* active record afterwards.
C13_IdsNotReused ==
    ~sys.crashed =>
        /\ \A n \in 0..(num_processes(sys) - 1) :
              Word(sys, ProcActive(n)) # 0 =>
                  Cardinality(ActiveOf(sys, Word(sys, ProcId(n)))) = 1
        /\ \A n \in 0..(num_processes(pre) - 1) :
              LET id == Word(pre, ProcId(n))
              IN  \/ ActiveOf(pre, id) = {} /\ last.pid # id
                  \/ /\ last.op = "free"
                     /\ last.pid = id
                     /\ Cardinality(ActiveOf(pre, id)) = 1
                  => ActiveOf(sys, id) = {}

\* C14: when a free's drain attempts a head request that the total free
\* memory covers but no single free block fits, the free returns with the
\* wait queue as that attempt found it: the same entries in the same
\* order, the same count and the same front.
C14_FailedDrainKeepsQueue ==
    (last.op = "free" /\ last.report = "freed" /\ ~sys.crashed) =>
        \A n \in 1..Len(DrainStates(released)) :
            LET h == DrainStates(released)[n]
            IN  (/\ wait_queue_count(h) > 0
                 /\ get_total_free_memory(h) >= HeadSize(h)
                 /\ Fits(h, HeadSize(h)) = {}) =>
                    /\ Waiting(sys) = Waiting(h)
                    /\ wait_queue_front(sys) = wait_queue_front(h)

\* C15: after initialisation and after every completed allocate or free the
\* wait queue is empty or no single free block is as large as the request
\* at the head of the queue.
C15_HeadDoesNotFit ==
    ~sys.crashed =>
        \/ wait_queue_count(sys) = 0
        \/ Fits(sys, HeadSize(sys)) = {}

\* C16: the drain loop of a free_memory call allocates at most as many
\* queued requests as the wait queue held when the free began, and the call
\* returns with the object as the first iteration that does not allocate
\* left it.
C16_DrainBounded ==
    (last.op = "free" /\ last.report = "freed" /\ ~sys.crashed) =>
        LET states == DrainStates(released)
        IN  /\ Len(states) - 1 <= wait_queue_count(pre)
            /\ sys = try_allocate_waiting_process(states[Len(states)]).s

\* C17: an allocate whose first fitting block has exactly the requested size
\* does not split: the block count and every block's start and size stay,
\* only that block's free flag changes, to allocated, and one active
\* process record with the block's start and the size is appended behind
\* the unchanged records.
C17_ExactFit ==
    LET i == FirstFit(pre, last.size, 0)
    IN  (last.op = "allocate" /\ i # NoFit /\ i # OutOfObj
           /\ Word(pre, BlockSize(i)) = last.size) =>
            /\ ~sys.crashed
            /\ num_blocks(sys) = num_blocks(pre)
            /\ \A j \in 0..(num_blocks(pre) - 1) :
                  Block(sys, j) = IF j = i
                                  THEN <<Word(pre, BlockStart(i)), last.size, 0>>
                                  ELSE Block(pre, j)
            /\ num_processes(sys) = num_processes(pre) + 1
            /\ Proc(sys, num_processes(pre))
                   = <<last.pid, Word(pre, BlockStart(i)), last.size, 1>>
            /\ \A n \in 0..(num_processes(pre) - 1) : Proc(sys, n) = Proc(pre, n)

\* the address of the first active record of `id` (free_memory's match)
AddressOf(s, id) ==
    LET n == CHOOSE n \in ActiveOf(s, id) : \A k \in ActiveOf(s, id) : n <= k
    IN  Word(s, ProcAddr(n))

\* C18: no operation lowers the block count or makes a block's start
\* address disappear from the table, and a free_memory(p) that allocates
\* nothing from the queue leaves the block table as it was but for the free
\* flag of one block whose start is p's address, which it sets.
C18_NoMerge ==
    ~sys.crashed =>
        /\ num_blocks(sys) >= num_blocks(pre)
        /\ \A j \in 0..(num_blocks(pre) - 1) :
              \E k \in j..(num_blocks(sys) - 1) :
                  Word(sys, BlockStart(k)) = Word(pre, BlockStart(j))
        /\ (last.op = "free" /\ last.report = "freed"
               /\ Len(DrainStates(released)) = 1) =>
              /\ num_blocks(sys) = num_blocks(pre)
              /\ \E j \in 0..(num_blocks(pre) - 1) :
                    /\ Word(pre, BlockStart(j)) = AddressOf(pre, last.pid)
                    /\ \A k \in 0..(num_blocks(pre) - 1) :
                          Block(sys, k) = IF k = j
                                          THEN <<Word(pre, BlockStart(j)),
                                                 Word(pre, BlockSize(j)), 1>>
                                          ELSE Block(pre, k)

\* the active records that describe blocks[j]: same address, same size
HoldersOf(s, j) ==
    {n \in 0..(num_processes(s) - 1) :
        /\ Word(s, ProcActive(n)) # 0
        /\ Word(s, ProcAddr(n)) = Word(s, BlockStart(j))
        /\ Word(s, ProcSize(n)) = Word(s, BlockSize(j))}

\* C19: in a state whose block count and process count are within
\* MAX_BLOCKS and MAX_PROCESSES, every allocated block is described by
\* exactly one active process record (its start as address, its size) and
\* every active process record describes an allocated block.
C19_OneToOne ==
    (/\ ~sys.crashed
     /\ num_blocks(sys) <= MAX_BLOCKS
     /\ num_processes(sys) <= MAX_PROCESSES) =>
        /\ \A j \in 0..(num_blocks(sys) - 1) :
              Word(sys, BlockFree(j)) = 0 => Cardinality(HoldersOf(sys, j)) = 1
        /\ \A n \in 0..(num_processes(sys) - 1) :
              Word(sys, ProcActive(n)) # 0 =>
                  \E j \in 0..(num_blocks(sys) - 1) :
                      Word(sys, BlockFree(j)) = 0 /\ n \in HoldersOf(sys, j)

\* C20: in every state the circular wait queue is consistent: the count is
\* in 0..MAX_WAIT_QUEUE, the front is in 0..MAX_WAIT_QUEUE-1, and the slot
\* after the rear is the slot wait_queue_count places after the front.
C20_QueueConsistent ==
    ~sys.crashed =>
        /\ wait_queue_count(sys) >= 0
        /\ wait_queue_count(sys) <= MAX_WAIT_QUEUE
        /\ wait_queue_front(sys) >= 0
        /\ wait_queue_front(sys) < MAX_WAIT_QUEUE
        /\ (wait_queue_rear(sys) + 1) % MAX_WAIT_QUEUE
              = (wait_queue_front(sys) + wait_queue_count(sys)) % MAX_WAIT_QUEUE
====
